---- MODULE Spec2Model ----
(***************************************************************************)
(* Model of tsuru's event package (event/event.go): events as audit        *)
(* records and per-target locks kept in one store collection, the lock     *)
(* heartbeat worker (lockUpdater), throttling, and the cancel handshake.   *)
(*                                                                         *)
(* Time is a clock that starts at 1 and ticks once per lockExpireTimeout    *)
(* (five minutes); the value 0 is Go's zero time.Time, which bson omits     *)
(* (",omitempty") and reads back as zero.                                   *)
(* Each store call is one atomic step; what a function does between two    *)
(* store calls belongs to the step of the call that follows. A send on one *)
(* of the worker's unbuffered channels is one step with the worker's cycle *)
(* that receives it.                                                       *)
(***************************************************************************)
EXTENDS Integers, FiniteSets, Sequences, TLC

\* ---------------------------------------------------------------- bounds
MaxNow == 3             \* the clock stops here
MaxEvents == 2          \* bson.NewObjectId is called at most this often
MaxThrottle == 2        \* largest ThrottlingSpec.Max registered

\* ------------------------------------------------------ program constants
lockExpireTimeout == 1  \* 5 * time.Minute, in ticks of the clock

moreRetries == 1 + 1    \* a variant with one more retry
maxRetries == 1         \* maxRetries := 1 in newEvt

\* ------------------------------------------------------------ the callers
Callers == {"c1", "c2", "c3"}
Procs == {"p1", "p2"}
ProcOf(c) == IF c = "c3" THEN "p2" ELSE "p1"

\* ------------------------------------------------------------- data types
NoTarget == [Name |-> "", Value |-> ""]
TargetA == [Name |-> "app", Value |-> "a"]
TargetB == [Name |-> "app", Value |-> "b"]

IsValid(t) == t.Name # "" /\ t.Value # ""

\* eventId{Target: t} and eventId{ObjId: u}
TargetId(t) == [Target |-> t, ObjId |-> 0]
ObjectId(u) == [Target |-> NoTarget, ObjId |-> u]

\* The bson form of an eventId: the object id when there is one, else the
\* target document.
GetBSON(id) == IF id.ObjId # 0 THEN ObjectId(id.ObjId) ELSE TargetId(id.Target)

\* Reading an _id back: a document unmarshals into Target, anything else
\* into ObjId.
SetBSON(raw) == IF raw.ObjId = 0 THEN TargetId(raw.Target) ELSE ObjectId(raw.ObjId)

NoCancelInfo == [Asked |-> FALSE, Canceled |-> FALSE]

\* The zero eventData ("var evt Event").
ZeroEvt ==
    [ID |-> TargetId(NoTarget), UniqueID |-> 0, StartTime |-> 0, EndTime |-> 0,
     Target |-> NoTarget, OtherCustomData |-> "",
     Kind |-> [Type |-> "", Name |-> ""], Owner |-> [Type |-> "", Name |-> ""],
     Cancelable |-> FALSE, Running |-> FALSE, LockUpdateTime |-> 0,
     Error |-> "", Log |-> "", CancelInfo |-> NoCancelInfo, RemoveDate |-> 0]

\* eventData as the store holds it, and as it is read back into a struct.
Marshal(e) == [e EXCEPT !.ID = GetBSON(e.ID)]
Unmarshal(d) == [d EXCEPT !.ID = SetBSON(d.ID)]

ExpiredMsg == "event expired, no update for"
CanceledMsg == "canceled by user request"

VARIABLES
    events,          \* the events collection: a set of documents, _id unique
    now,             \* time.Now()
    nextId,          \* the next bson.NewObjectId()
    throttlingInfo,  \* the registry: a set of [key, spec]
    set,             \* per process: the heartbeat worker's set of targets
    started,         \* per process: the worker is spinning (updater.once done)
    pc,              \* per caller: where its current call stands
    h,               \* per caller: the eventData of the handle it works on
    logBuffer,       \* per caller: the handle's log buffer
    life,            \* per caller: where h came from: "none", "new" (New returned
                     \* it), "got" (GetRunning did), "final" (Done or Abort began)
    existingEvt,     \* per caller: checkIsExpired's existingEvt
    nested,          \* per caller: done runs on existingEvt, inside checkIsExpired
    loc,             \* per caller: locals of the running call
    ret,             \* per caller: what its last call returned
    hist,            \* per caller: what its last New saw (for the properties)
    solo             \* per caller: nobody else has acted since its New began

vars == <<events, now, nextId, throttlingInfo, set, started, pc, h, logBuffer,
          life, existingEvt, nested, loc, ret, hist, solo>>

NoLoc == [i |-> 0, err |-> "", abort |-> FALSE, evtErr |-> "", doneErr |-> "",
          deferId |-> TargetId(NoTarget)]
NoRet == [op |-> "", err |-> ""]
NoHist == [uid |-> 0, inserts |-> 0, first |-> "", stale |-> 0, twin |-> FALSE]

Init ==
    /\ events = {}
    /\ now = 1
    /\ nextId = 1
    /\ throttlingInfo = {}
    /\ set = [p \in Procs |-> {}]
    /\ started = [p \in Procs |-> FALSE]
    /\ pc = [c \in Callers |-> "idle"]
    /\ h = [c \in Callers |-> ZeroEvt]
    /\ logBuffer = [c \in Callers |-> ""]
    /\ life = [c \in Callers |-> "none"]
    /\ existingEvt = [c \in Callers |-> ZeroEvt]
    /\ nested = [c \in Callers |-> FALSE]
    /\ loc = [c \in Callers |-> NoLoc]
    /\ ret = [c \in Callers |-> NoRet]
    /\ hist = [c \in Callers |-> NoHist]
    /\ solo = [c \in Callers |-> FALSE]

\* ------------------------------------------------------------- the store
FindId(id) == {d \in events : d.ID = GetBSON(id)}
IsDup(doc) == \E d \in events : d.ID = doc.ID
RemoveId(id) == events \ FindId(id)

\* ------------------------------------------------------------ throttling
\* key := spec.TargetName, or fmt.Sprintf("%s_%s", TargetName, KindName)
ThrottleKey(spec) ==
    IF spec.KindName # "" THEN spec.TargetName \o "_" \o spec.KindName
    ELSE spec.TargetName

SetThrottling(spec) ==
    /\ throttlingInfo' = {e \in throttlingInfo : e.key # ThrottleKey(spec)}
                            \cup {[key |-> ThrottleKey(spec), spec |-> spec]}
    /\ UNCHANGED <<events, now, nextId, set, started, pc, h, logBuffer, life,
                   existingEvt, nested, loc, ret, hist>>

\* The specs that apply to (t, k): the kind-scoped one first, else the
\* target-scoped one; empty when there is none.
getThrottling(t, k) ==
    LET byKind == {e.spec : e \in {x \in throttlingInfo : x.key = t.Name \o "_" \o k.Name}}
        byName == {e.spec : e \in {x \in throttlingInfo : x.key = t.Name}}
    IN IF byKind # {} THEN byKind ELSE byName

ThrottleQuery(opts, tSpec) ==
    {d \in events :
        /\ d.Target.Name = opts.Target.Name
        /\ d.Target.Value = opts.Target.Value
        /\ d.StartTime > now - tSpec.Time
        /\ (tSpec.KindName # "" => d.Kind.Name = tSpec.KindName)}

Throttled(opts, k) ==
    \E tSpec \in getThrottling(opts.Target, k) :
        /\ tSpec.Max > 0 /\ tSpec.Time > 0
        /\ Cardinality(ThrottleQuery(opts, tSpec)) >= tSpec.Max

\* ------------------------------------------------------ heartbeat worker
\* The store update of one cycle of spin: coll.Update changes ONE document
\* that matches {_id: {$in: set}} (whichever the store finds first), or
\* fails (connection or update error: logged, not retried).
spinUpdate(s, dbOk) ==
    LET matching == {d \in events : \E t \in s : d.ID = GetBSON(TargetId(t))}
    IN IF dbOk /\ matching # {}
       THEN \E d \in matching :
                events' = (events \ {d}) \cup {[d EXCEPT !.LockUpdateTime = now]}
       ELSE events' = events

\* case <-time.After(lockUpdateInterval)
spinTimeout(p) ==
    /\ started[p]
    /\ set[p] # {}
    /\ spinUpdate(set[p], TRUE)
    /\ UNCHANGED <<now, nextId, throttlingInfo, set, started, pc, h, logBuffer,
                   life, existingEvt, nested, loc, ret, hist>>

\* case added := <-l.addCh, with the sender's side of the rendezvous
spinAdd(p, t, dbOk) ==
    /\ started[p]
    /\ set' = [set EXCEPT ![p] = @ \cup {t}]
    /\ spinUpdate(set'[p], dbOk)

\* case removed := <-l.removeCh
spinRemove(p, t, dbOk) ==
    /\ started[p]
    /\ set' = [set EXCEPT ![p] = @ \ {t}]
    /\ spinUpdate(set'[p], dbOk)

\* ------------------------------------------------------------ New, newEvt
NoOwner == [Type |-> "", Name |-> ""]

\* New's own checks; "" when they pass.
NewValidate(opts) ==
    IF opts.Owner = "" /\ opts.RawOwner.Name = "" /\ opts.RawOwner.Type = ""
    THEN "ErrNoOwner"
    ELSE IF opts.Kind = "" THEN "ErrNoKind" ELSE ""

NewInternalValidate(opts) ==
    IF opts.Owner # "" THEN "ErrInvalidOwner"
    ELSE IF opts.Kind # "" THEN "ErrInvalidKind"
    ELSE IF opts.InternalKind = "" THEN "ErrNoInternalKind" ELSE ""

newEvtKind(opts) ==
    IF opts.Kind = "" THEN [Type |-> "internal", Name |-> opts.InternalKind]
    ELSE [Type |-> "permission", Name |-> opts.Kind]

newEvtOwner(opts) ==
    IF opts.Owner = ""
    THEN IF opts.RawOwner.Name # "" /\ opts.RawOwner.Type # ""
         THEN opts.RawOwner
         ELSE [Type |-> "internal", Name |-> ""]
    ELSE IF opts.Owner = "app" THEN [Type |-> "app", Name |-> "appname"]
    ELSE [Type |-> "user", Name |-> "username"]

\* newEvt's checks before the store is used; "" when they pass.
newEvtValidate(opts) ==
    IF ~IsValid(opts.Target) THEN "ErrNoTarget"
    ELSE IF opts.Kind = "" /\ opts.InternalKind = "" THEN "ErrNoKind" ELSE ""

newEvtData(opts) ==
    [ZeroEvt EXCEPT !.ID = TargetId(opts.Target), !.UniqueID = nextId,
                    !.Target = opts.Target, !.StartTime = now,
                    !.Kind = newEvtKind(opts), !.Owner = newEvtOwner(opts),
                    !.LockUpdateTime = now, !.Running = TRUE,
                    !.Cancelable = opts.Cancelable]

\* A variant that waits one tick longer before it calls a lock expired.
IsExpiredLate(lastUpdate) == now > lastUpdate + lockExpireTimeout + 1

\* now.After(lastUpdate.Add(lockExpireTimeout))
IsExpired(lastUpdate) == now > lastUpdate + lockExpireTimeout

\* What the properties remember of a New call, taken when it begins: the
\* live row of the target when its lockUpdateTime is older than
\* lockExpireTimeout, and whether that event has a historical row already.
HistAtCall(opts) ==
    LET live == FindId(TargetId(opts.Target))
        old == {d \in live : now - d.LockUpdateTime > lockExpireTimeout}
        uid == IF old = {} THEN 0 ELSE (CHOOSE d \in old : TRUE).UniqueID
    IN [NoHist EXCEPT !.stale = uid,
                      !.twin = (FindId(ObjectId(uid)) # {})]

Return(c, op, err) ==
    /\ pc' = [pc EXCEPT ![c] = "idle"]
    /\ ret' = [ret EXCEPT ![c] = [op |-> op, err |-> err]]
    /\ loc' = [loc EXCEPT ![c] = NoLoc]

\* New(opts) / NewInternal(opts) up to newEvt's first insert: the checks,
\* updater.start(), the throttling count, and the new eventData.
NewCall(c, opts, internal) ==
    LET v == IF internal THEN NewInternalValidate(opts) ELSE NewValidate(opts)
        w == newEvtValidate(opts)
        fail == IF v # "" THEN v
                ELSE IF w # "" THEN w
                ELSE IF Throttled(opts, newEvtKind(opts)) THEN "ErrThrottled"
                ELSE ""
    IN /\ pc[c] = "idle" /\ life[c] # "new"
       /\ life' = [life EXCEPT ![c] = "none"]
       /\ started' = [started EXCEPT ![ProcOf(c)] = @ \/ (v = "")]
       /\ logBuffer' = [logBuffer EXCEPT ![c] = ""]
       /\ hist' = [hist EXCEPT ![c] = IF fail = "" THEN HistAtCall(opts) ELSE NoHist]
       /\ IF fail # ""
          THEN /\ Return(c, "New", fail)
               /\ h' = [h EXCEPT ![c] = ZeroEvt]
               /\ UNCHANGED nextId
          ELSE /\ h' = [h EXCEPT ![c] = newEvtData(opts)]
               /\ nextId' = nextId + 1
               /\ pc' = [pc EXCEPT ![c] = "insert"]
               /\ loc' = [loc EXCEPT ![c] = NoLoc]
               /\ ret' = [ret EXCEPT ![c] = NoRet]
       /\ UNCHANGED <<events, now, throttlingInfo, set, existingEvt, nested>>

\* err = coll.Insert(evt.eventData), and where the loop goes on a duplicate.
NewInsert(c) ==
    LET doc == Marshal(h[c])
    IN /\ pc[c] = "insert"
       /\ hist' = [hist EXCEPT ![c].inserts = @ + 1]
       /\ IF ~IsDup(doc)
          THEN /\ events' = events \cup {doc}
               /\ pc' = [pc EXCEPT ![c] = "add"]
               /\ UNCHANGED loc
          ELSE /\ events' = events
               /\ pc' = [pc EXCEPT ![c] = IF loc[c].i >= maxRetries THEN "find" ELSE "check"]
               /\ loc' = [loc EXCEPT ![c].err = "dup"]
       /\ UNCHANGED <<now, nextId, throttlingInfo, set, started, h, logBuffer,
                      life, existingEvt, nested, ret>>

\* checkIsExpired up to the call of existingEvt.Done.
NewCheck(c) ==
    LET found == FindId(h[c].ID)
        old == {d \in found : IsExpired(d.LockUpdateTime)}
    IN /\ pc[c] = "check"
       /\ IF old # {}
          THEN /\ existingEvt' = [existingEvt EXCEPT ![c] = Unmarshal(CHOOSE d \in old : TRUE)]
               /\ nested' = [nested EXCEPT ![c] = TRUE]
               /\ loc' = [loc EXCEPT ![c].abort = FALSE, ![c].evtErr = ExpiredMsg]
               /\ pc' = [pc EXCEPT ![c] = "D_send"]
          ELSE /\ pc' = [pc EXCEPT ![c] = "find"]
               /\ UNCHANGED <<existingEvt, nested, loc>>
       /\ hist' = [hist EXCEPT ![c].first =
                      IF loc[c].i # 0 THEN @
                      ELSE IF old # {} THEN "expired"
                      ELSE IF found # {} THEN "fresh" ELSE "gone"]
       /\ UNCHANGED <<events, now, nextId, throttlingInfo, set, started, h,
                      logBuffer, life, ret>>

\* The loop's i++ and test: on to the next insert, or return nil, err.
NewLoop(c, err) ==
    IF loc[c].i + 1 < maxRetries + 1
    THEN /\ pc' = [pc EXCEPT ![c] = "insert"]
         /\ loc' = [loc EXCEPT ![c] = [NoLoc EXCEPT !.i = loc[c].i + 1, !.err = err]]
         /\ UNCHANGED <<h, ret>>
    ELSE /\ Return(c, "New", err)
         /\ h' = [h EXCEPT ![c] = ZeroEvt]

\* coll.FindId(evt.ID).One(&existing): ErrEventLocked when the row is there.
NewFind(c) ==
    /\ pc[c] = "find"
    /\ NewLoop(c, IF FindId(h[c].ID) # {} THEN "ErrEventLocked" ELSE "ErrNotFound")
    /\ UNCHANGED <<events, now, nextId, throttlingInfo, set, started, logBuffer,
                   life, existingEvt, nested, hist>>

\* updater.addCh <- &opts.Target; return &evt, nil
NewAdd(c) ==
    /\ pc[c] = "add"
    /\ \E dbOk \in BOOLEAN : spinAdd(ProcOf(c), h[c].Target, dbOk)
    /\ Return(c, "New", "")
    /\ life' = [life EXCEPT ![c] = "new"]
    /\ hist' = [hist EXCEPT ![c].uid = h[c].UniqueID]
    /\ UNCHANGED <<now, nextId, throttlingInfo, started, h, logBuffer,
                   existingEvt, nested>>

\* ------------------------------------------------------------------ done
\* The Event that done runs on: the caller's handle, or existingEvt when
\* checkIsExpired called Done.
Cur(c) == IF nested[c] THEN existingEvt[c] ELSE h[c]

SetCur(c, e) ==
    IF nested[c]
    THEN existingEvt' = [existingEvt EXCEPT ![c] = e] /\ UNCHANGED h
    ELSE h' = [h EXCEPT ![c] = e] /\ UNCHANGED existingEvt

\* e.Done(evtErr) / e.DoneCustomData(evtErr, data) / e.Abort() are called
\* on a handle the caller has; done begins with updater.removeCh <- &e.Target.
DoneCall(c, evtErr, abort) ==
    /\ pc[c] = "idle"
    /\ h[c].UniqueID # 0
    /\ \E dbOk \in BOOLEAN : spinRemove(ProcOf(c), h[c].Target, dbOk)
    /\ pc' = [pc EXCEPT ![c] = IF abort THEN "A_remove" ELSE "D_find"]
    /\ loc' = [loc EXCEPT ![c] = [NoLoc EXCEPT !.abort = abort, !.evtErr = evtErr]]
    /\ ret' = [ret EXCEPT ![c] = NoRet]
    /\ life' = [life EXCEPT ![c] = "final"]
    /\ hist' = [hist EXCEPT ![c] = [NoHist EXCEPT !.uid = hist[c].uid]]
    /\ UNCHANGED <<now, nextId, throttlingInfo, started, h, logBuffer,
                   existingEvt, nested>>

\* existingEvt.Done(...) inside checkIsExpired begins the same way.
DoneSend(c) ==
    /\ pc[c] = "D_send"
    /\ \E dbOk \in BOOLEAN : spinRemove(ProcOf(c), Cur(c).Target, dbOk)
    /\ pc' = [pc EXCEPT ![c] = IF loc[c].abort THEN "A_remove" ELSE "D_find"]
    /\ UNCHANGED <<now, nextId, throttlingInfo, started, h, logBuffer, life,
                   existingEvt, nested, loc, ret, hist>>

\* if abort { return coll.RemoveId(e.ID) }
AbortRemove(c) ==
    /\ pc[c] = "A_remove"
    /\ events' = RemoveId(Cur(c).ID)
    /\ Return(c, "Abort", IF FindId(Cur(c).ID) = {} THEN "ErrNotFound" ELSE "")
    /\ UNCHANGED <<now, nextId, throttlingInfo, set, started, h, logBuffer,
                   life, existingEvt, nested, hist>>

\* The fields done sets before it reads the row.
doneError(e, evtErr) ==
    IF evtErr # "" THEN evtErr
    ELSE IF e.CancelInfo.Canceled THEN CanceledMsg ELSE e.Error

\* A variant that leaves e.Running as it is.
doneFieldsRunning(e, evtErr, log) ==
    [e EXCEPT !.Error = doneError(e, evtErr), !.EndTime = now, !.Log = log]

doneFields(e, evtErr, log) ==
    [e EXCEPT !.Error = doneError(e, evtErr), !.EndTime = now,
              !.Running = FALSE, !.Log = log]

\* ... coll.FindId(e.ID).One(&dbEvt): take the row's OtherCustomData.
DoneFind(c) ==
    LET e == doneFields(Cur(c), loc[c].evtErr, IF nested[c] THEN "" ELSE logBuffer[c])
        found == FindId(e.ID)
    IN /\ pc[c] = "D_find"
       /\ SetCur(c, IF found = {} THEN e
                    ELSE [e EXCEPT !.OtherCustomData = (CHOOSE d \in found : TRUE).OtherCustomData])
       /\ pc' = [pc EXCEPT ![c] = "D_insert"]
       /\ UNCHANGED <<events, now, nextId, throttlingInfo, set, started,
                      logBuffer, life, nested, loc, ret, hist>>

\* A variant that takes the id to remove after e.ID has been reassigned.
deferredIdLate(e) == ObjectId(e.UniqueID)

\* The id the deferred RemoveId is given: e.ID as it is at the defer
\* statement, before e.ID becomes the unique id.
deferredId(e) == e.ID

\* defer coll.RemoveId(e.ID); e.ID = eventId{ObjId: e.UniqueID};
\* return coll.Insert(e.eventData)
DoneInsert(c) ==
    LET e == [Cur(c) EXCEPT !.ID = ObjectId(Cur(c).UniqueID)]
        doc == Marshal(e)
    IN /\ pc[c] = "D_insert"
       /\ SetCur(c, e)
       /\ loc' = [loc EXCEPT ![c].deferId = deferredId(Cur(c)),
                             ![c].doneErr = IF IsDup(doc) THEN "dup" ELSE ""]
       /\ events' = IF IsDup(doc) THEN events ELSE events \cup {doc}
       /\ pc' = [pc EXCEPT ![c] = "D_remove"]
       /\ UNCHANGED <<now, nextId, throttlingInfo, set, started, logBuffer,
                      life, nested, ret, hist>>

\* The deferred coll.RemoveId runs, and done returns the insert's error: to
\* the caller, or to checkIsExpired, which drops it and returns true.
DoneRemove(c) ==
    /\ pc[c] = "D_remove"
    /\ events' = RemoveId(loc[c].deferId)
    /\ IF nested[c]
       THEN /\ nested' = [nested EXCEPT ![c] = FALSE]
            /\ NewLoop(c, loc[c].err)
       ELSE /\ Return(c, "Done", loc[c].doneErr)
            /\ UNCHANGED <<h, nested>>
    /\ UNCHANGED <<now, nextId, throttlingInfo, set, started, logBuffer, life,
                   existingEvt, hist>>

\* ------------------------------------------------- the other operations
\* A call that is one store call: it returns in the step it is made.
Returned(c, op, err) ==
    /\ pc[c] = "idle"
    /\ pc' = pc
    /\ loc' = loc
    /\ ret' = [ret EXCEPT ![c] = [op |-> op, err |-> err]]

\* The document a find-and-modify leaves, given the document it found.
tryCancelChange(d) == [d EXCEPT !.CancelInfo = [Asked |-> TRUE, Canceled |-> FALSE]]
ackCancelChange(d) == [d EXCEPT !.CancelInfo.Canceled = TRUE]

\* A variant that asks for the id alone.
ackCancelQueryAny(e) == FindId(e.ID)

\* coll.Find({"_id": e.ID, "cancelinfo.asked": true})
ackCancelQuery(e) == {d \in FindId(e.ID) : d.CancelInfo.Asked}

\* query.Apply(change, &e.eventData) with ReturnNew, given the matching
\* documents: the document is changed and read back into the handle.
Apply(c, op, found, new) ==
    IF found = {}
    THEN /\ Returned(c, op, "ErrEventNotFound")
         /\ UNCHANGED <<events, h>>
    ELSE /\ events' = (events \ found) \cup {new}
         /\ h' = [h EXCEPT ![c] = Unmarshal(new)]
         /\ Returned(c, op, "")

TryCancel(c) ==
    /\ h[c].UniqueID # 0
    /\ IF ~h[c].Cancelable \/ ~h[c].Running
       THEN Returned(c, "TryCancel", "ErrNotCancelable") /\ UNCHANGED <<events, h>>
       ELSE LET found == FindId(h[c].ID)
            IN Apply(c, "TryCancel", found,
                     IF found = {} THEN ZeroEvt ELSE tryCancelChange(CHOOSE d \in found : TRUE))
    /\ UNCHANGED <<now, nextId, throttlingInfo, set, started, logBuffer, life,
                   existingEvt, nested, hist>>

AckCancel(c) ==
    /\ h[c].UniqueID # 0
    /\ IF ~h[c].Cancelable \/ ~h[c].Running
       THEN Returned(c, "AckCancel", "ErrNotCancelable") /\ UNCHANGED <<events, h>>
       ELSE LET found == ackCancelQuery(h[c])
            IN Apply(c, "AckCancel", found,
                     IF found = {} THEN ZeroEvt ELSE ackCancelChange(CHOOSE d \in found : TRUE))
    /\ UNCHANGED <<now, nextId, throttlingInfo, set, started, logBuffer, life,
                   existingEvt, nested, hist>>

\* coll.Find({"_id": eventId{Target: target}, "kind.name": kind, "running": true})
getRunningQuery(target, kind) ==
    {d \in FindId(TargetId(target)) : d.Kind.Name = kind /\ d.Running}

GetRunning(c, target, kind) ==
    LET found == getRunningQuery(target, kind)
    IN /\ life[c] # "new"
       /\ life' = [life EXCEPT ![c] = IF found = {} THEN "none" ELSE "got"]
       /\ Returned(c, "GetRunning", IF found = {} THEN "ErrEventNotFound" ELSE "")
       /\ h' = [h EXCEPT ![c] = IF found = {} THEN ZeroEvt
                                ELSE Unmarshal(CHOOSE d \in found : TRUE)]
       /\ logBuffer' = [logBuffer EXCEPT ![c] = ""]
       /\ UNCHANGED <<events, now, nextId, throttlingInfo, set, started,
                      existingEvt, nested, hist>>

\* coll.UpdateId(e.ID, {"$set": {"othercustomdata": data}})
SetOtherCustomData(c, data) ==
    LET found == FindId(h[c].ID)
    IN /\ h[c].UniqueID # 0
       /\ Returned(c, "SetOtherCustomData", IF found = {} THEN "ErrNotFound" ELSE "")
       /\ events' = (events \ found) \cup {[d EXCEPT !.OtherCustomData = data] : d \in found}
       /\ UNCHANGED <<now, nextId, throttlingInfo, set, started, h, logBuffer,
                      life, existingEvt, nested, hist>>

\* e.Logf: the text goes to the handle's buffer.
Logf(c) ==
    /\ pc[c] = "idle"
    /\ h[c].UniqueID # 0
    /\ logBuffer[c] = ""
    /\ logBuffer' = [logBuffer EXCEPT ![c] = "log"]
    /\ UNCHANGED <<events, now, nextId, throttlingInfo, set, started, pc, h,
                   life, existingEvt, nested, loc, ret, hist>>

\* coll.UpdateAll({"target": target, "removedate": {"$exists": false}}, ...)
markAsRemovedQuery(target) == {d \in events : d.Target = target /\ d.RemoveDate = 0}

MarkAsRemoved(target) ==
    /\ events' = (events \ markAsRemovedQuery(target))
                    \cup {[d EXCEPT !.RemoveDate = now] : d \in markAsRemovedQuery(target)}
    /\ markAsRemovedQuery(target) # {}
    /\ UNCHANGED <<now, nextId, throttlingInfo, set, started, pc, h, logBuffer,
                   life, existingEvt, nested, loc, ret, hist>>

\* ------------------------------------------------------ the environment
\* Time passes.
Tick ==
    /\ now + 1 <= MaxNow
    /\ now' = now + 1
    /\ UNCHANGED <<events, nextId, throttlingInfo, set, started, pc, h,
                   logBuffer, life, existingEvt, nested, loc, ret, hist, solo>>

\* A process dies, whatever its callers were doing, and is started anew:
\* its handles, its worker and the worker's set are gone, the store stays.
Crash(p) ==
    /\ started[p]
    /\ set' = [set EXCEPT ![p] = {}]
    /\ started' = [started EXCEPT ![p] = FALSE]
    /\ pc' = [c \in Callers |-> IF ProcOf(c) = p THEN "idle" ELSE pc[c]]
    /\ h' = [c \in Callers |-> IF ProcOf(c) = p THEN ZeroEvt ELSE h[c]]
    /\ logBuffer' = [c \in Callers |-> IF ProcOf(c) = p THEN "" ELSE logBuffer[c]]
    /\ life' = [c \in Callers |-> IF ProcOf(c) = p THEN "none" ELSE life[c]]
    /\ existingEvt' = [c \in Callers |-> IF ProcOf(c) = p THEN ZeroEvt ELSE existingEvt[c]]
    /\ nested' = [c \in Callers |-> IF ProcOf(c) = p THEN FALSE ELSE nested[c]]
    /\ loc' = [c \in Callers |-> IF ProcOf(c) = p THEN NoLoc ELSE loc[c]]
    /\ ret' = [c \in Callers |-> IF ProcOf(c) = p THEN NoRet ELSE ret[c]]
    /\ hist' = [c \in Callers |-> IF ProcOf(c) = p THEN NoHist ELSE hist[c]]
    /\ UNCHANGED <<events, now, nextId, throttlingInfo>>

\* solo[c] holds from the step that begins c's New for as long as c alone
\* acts, up to the step in which c begins its next call.
SoloAfter(c) ==
    solo' = [x \in Callers |->
                IF x # c THEN FALSE
                ELSE IF pc[c] = "idle" THEN pc'[c] = "insert" ELSE solo[c]]

SoloLost == solo' = [x \in Callers |-> FALSE]

\* ------------------------------------------------------ specifications
Held(c) == life[c] = "new"

PermOpts(t, cancelable) ==
    [Target |-> t, Kind |-> "app.update", InternalKind |-> "", Owner |-> "user",
     RawOwner |-> NoOwner, Cancelable |-> cancelable]

\* Two callers of one process work on one target: New, Done and Abort, each
\* handle finalized once; the worker's timer and the clock.
\* The callers are alike, so the first New is c1's.
LockCallers == {"c1", "c2"}

LockNext(maxEvents) ==
    \/ \E c \in LockCallers :
          /\ nextId <= maxEvents /\ (nextId = 1 => c = "c1")
          /\ NewCall(c, PermOpts(TargetA, FALSE), FALSE) /\ SoloAfter(c)
    \/ \E c \in LockCallers : NewInsert(c) /\ SoloAfter(c)
    \/ \E c \in LockCallers : NewCheck(c) /\ SoloAfter(c)
    \/ \E c \in LockCallers : NewFind(c) /\ SoloAfter(c)
    \/ \E c \in LockCallers : NewAdd(c) /\ SoloAfter(c)
    \/ \E c \in LockCallers : Held(c) /\ DoneCall(c, "", FALSE) /\ SoloAfter(c)
    \/ \E c \in LockCallers : Held(c) /\ DoneCall(c, "", TRUE) /\ SoloAfter(c)
    \/ \E c \in LockCallers : DoneSend(c) /\ SoloAfter(c)
    \/ \E c \in LockCallers : AbortRemove(c) /\ SoloAfter(c)
    \/ \E c \in LockCallers : DoneFind(c) /\ SoloAfter(c)
    \/ \E c \in LockCallers : DoneInsert(c) /\ SoloAfter(c)
    \/ \E c \in LockCallers : DoneRemove(c) /\ SoloAfter(c)
    \/ spinTimeout("p1") /\ SoloLost
    \/ Tick

Next == LockNext(MaxEvents)

Spec == Init /\ [][Next]_vars

\* The same with one more event and with the process dying and starting
\* again, for the runs that take three events.
RaceNext ==
    \/ LockNext(MaxEvents + 1)
    \/ Crash("p1") /\ SoloLost

SpecRace == Init /\ [][RaceNext]_vars

\* One process holds up to two targets at once: its callers create events
\* on either target and finish them, and the worker's timer fires.
Targets == {TargetA, TargetB}

HeartbeatNext ==
    \/ \E c \in LockCallers, t \in Targets :
          /\ nextId <= MaxEvents /\ (nextId = 1 => c = "c1" /\ t = TargetA)
          /\ NewCall(c, PermOpts(t, FALSE), FALSE) /\ SoloAfter(c)
    \/ \E c \in LockCallers : NewInsert(c) /\ SoloAfter(c)
    \/ \E c \in LockCallers : NewCheck(c) /\ SoloAfter(c)
    \/ \E c \in LockCallers : NewFind(c) /\ SoloAfter(c)
    \/ \E c \in LockCallers : NewAdd(c) /\ SoloAfter(c)
    \/ \E c \in LockCallers : Held(c) /\ DoneCall(c, "", FALSE) /\ SoloAfter(c)
    \/ \E c \in LockCallers : DoneFind(c) /\ SoloAfter(c)
    \/ \E c \in LockCallers : DoneInsert(c) /\ SoloAfter(c)
    \/ \E c \in LockCallers : DoneRemove(c) /\ SoloAfter(c)
    \/ spinTimeout("p1") /\ SoloLost
    \/ Tick

SpecHeartbeat == Init /\ [][HeartbeatNext]_vars

\* The same callers with a ThrottlingSpec for the target's name registered
\* when the process starts, before any event is created.
ThrottlingSpecs ==
    {[TargetName |-> "app", KindName |-> "", Max |-> m, Time |-> 1] :
        m \in 1..MaxThrottle}

ThrottleNext ==
    \/ \E spec \in ThrottlingSpecs :
          /\ throttlingInfo = {} /\ nextId = 1
          /\ SetThrottling(spec) /\ SoloLost
    \/ LockNext(MaxEvents)

SpecThrottle == Init /\ [][ThrottleNext]_vars

\* Cancellation: the callers create cancelable events, reach the running
\* one through GetRunning, ask for its cancellation, acknowledge it, and
\* finish it through whichever handle they have, each handle once.
Unfinalized(c) == life[c] \in {"new", "got"}

CancelNext ==
    \/ \E c \in LockCallers :
          /\ nextId <= MaxEvents /\ (nextId = 1 => c = "c1")
          /\ NewCall(c, PermOpts(TargetA, TRUE), FALSE) /\ SoloAfter(c)
    \/ \E c \in LockCallers : NewInsert(c) /\ SoloAfter(c)
    \/ \E c \in LockCallers : NewCheck(c) /\ SoloAfter(c)
    \/ \E c \in LockCallers : NewFind(c) /\ SoloAfter(c)
    \/ \E c \in LockCallers : NewAdd(c) /\ SoloAfter(c)
    \/ \E c \in LockCallers : Unfinalized(c) /\ DoneCall(c, "", FALSE) /\ SoloAfter(c)
    \/ \E c \in LockCallers : DoneFind(c) /\ SoloAfter(c)
    \/ \E c \in LockCallers : DoneInsert(c) /\ SoloAfter(c)
    \/ \E c \in LockCallers : DoneRemove(c) /\ SoloAfter(c)
    \/ \E c \in LockCallers : GetRunning(c, TargetA, "app.update") /\ SoloAfter(c)
    \/ \E c \in LockCallers : TryCancel(c) /\ SoloAfter(c)
    \/ \E c \in LockCallers : AckCancel(c) /\ SoloAfter(c)

SpecCancel == Init /\ [][CancelNext]_vars

\* Every operation that writes a row, in sequence: one caller creates
\* cancelable and internal events, cancels, acknowledges, annotates,
\* finishes and aborts them; rows are marked as removed, the worker's timer
\* fires, the clock ticks, and the process dies and starts again.
InternalOpts(t) ==
    [Target |-> t, Kind |-> "", InternalKind |-> "healer", Owner |-> "",
     RawOwner |-> NoOwner, Cancelable |-> FALSE]

ShapeCallers == {"c1"}

ShapeNext ==
    \/ \E c \in ShapeCallers :
          /\ nextId <= MaxEvents
          /\ NewCall(c, PermOpts(TargetA, TRUE), FALSE) /\ SoloAfter(c)
    \/ \E c \in ShapeCallers :
          /\ nextId <= MaxEvents
          /\ NewCall(c, InternalOpts(TargetA), TRUE) /\ SoloAfter(c)
    \/ \E c \in ShapeCallers : NewInsert(c) /\ SoloAfter(c)
    \/ \E c \in ShapeCallers : NewCheck(c) /\ SoloAfter(c)
    \/ \E c \in ShapeCallers : NewFind(c) /\ SoloAfter(c)
    \/ \E c \in ShapeCallers : NewAdd(c) /\ SoloAfter(c)
    \/ \E c \in ShapeCallers : Held(c) /\ DoneCall(c, "", FALSE) /\ SoloAfter(c)
    \/ \E c \in ShapeCallers : Held(c) /\ DoneCall(c, "", TRUE) /\ SoloAfter(c)
    \/ \E c \in ShapeCallers : DoneSend(c) /\ SoloAfter(c)
    \/ \E c \in ShapeCallers : AbortRemove(c) /\ SoloAfter(c)
    \/ \E c \in ShapeCallers : DoneFind(c) /\ SoloAfter(c)
    \/ \E c \in ShapeCallers : DoneInsert(c) /\ SoloAfter(c)
    \/ \E c \in ShapeCallers : DoneRemove(c) /\ SoloAfter(c)
    \/ \E c \in ShapeCallers : TryCancel(c) /\ SoloAfter(c)
    \/ \E c \in ShapeCallers : AckCancel(c) /\ SoloAfter(c)
    \/ \E c \in ShapeCallers : SetOtherCustomData(c, "data") /\ SoloAfter(c)
    \/ MarkAsRemoved(TargetA) /\ SoloLost
    \/ spinTimeout("p1") /\ SoloLost
    \/ Crash("p1") /\ SoloLost
    \/ Tick

SpecShape == Init /\ [][ShapeNext]_vars

\* ------------------------------------------------------------ properties
ReturnedFrom(c, op) == pc[c] = "idle" /\ ret[c].op = op

\* The event of a handle cannot have expired yet: it started no longer ago
\* than lockExpireTimeout, and lockUpdateTime is never before startTime.
Unexpired(c) == now <= h[c].StartTime + lockExpireTimeout

\* C1: at no time do two handles hold one target while both are unfinalized
\* and unexpired.
MutualExclusion ==
    \A a, b \in Callers :
        (a # b /\ Held(a) /\ Held(b) /\ h[a].Target = h[b].Target)
            => ~(Unexpired(a) /\ Unexpired(b))

\* C2: a timeout wake of the heartbeat worker leaves every live row whose
\* target is in the worker's set with lockUpdateTime equal to the time of
\* the wake.
RefreshCoversSet ==
    [][\A p \in Procs :
          spinTimeout(p) =>
              \A d \in events' :
                  (\E t \in set[p] : d.ID = GetBSON(TargetId(t)))
                      => d.LockUpdateTime = now]_vars

\* C3, as stated: a New that runs alone on a target whose live row has a
\* lockUpdateTime older than lockExpireTimeout succeeds; afterwards the stale
\* event has a historical row with running = false whose error is the expiry
\* message, and the live row of the target is the new event's.
ReclaimWritesExpiry ==
    \A c \in Callers :
        (ReturnedFrom(c, "New") /\ solo[c] /\ hist[c].stale # 0) =>
            /\ ret[c].err = ""
            /\ \E d \in FindId(ObjectId(hist[c].stale)) :
                  ~d.Running /\ d.Error = ExpiredMsg
            /\ \E d \in FindId(TargetId(TargetA)) : d.UniqueID = h[c].UniqueID

\* C3: the same, except that a stale event which already has a historical
\* row (its holder stopped inside Done, between the insert and the remove)
\* keeps that row, whatever its error.
ReclaimFinalizesStale ==
    \A c \in Callers :
        (ReturnedFrom(c, "New") /\ solo[c] /\ hist[c].stale # 0) =>
            /\ ret[c].err = ""
            /\ \E d \in FindId(ObjectId(hist[c].stale)) :
                  ~d.Running /\ (hist[c].twin \/ d.Error = ExpiredMsg)
            /\ \E d \in FindId(TargetId(TargetA)) : d.UniqueID = h[c].UniqueID

\* A New that ran alone on a stale lock without a historical row has
\* returned its event.
ReclaimDone ==
    \E c \in Callers :
        /\ ReturnedFrom(c, "New") /\ solo[c] /\ hist[c].stale # 0
        /\ ~hist[c].twin /\ ret[c].err = ""

\* C4, as stated: New inserts at most twice, the second time only after it
\* found the live row expired; after a conflict with a live row that is not
\* expired it returns ErrEventLocked with one insert made.
RetryOnlyAfterReclaim ==
    \A c \in Callers :
        /\ hist[c].inserts <= 2
        /\ hist[c].inserts = 2 => hist[c].first = "expired"
        /\ (ReturnedFrom(c, "New") /\ hist[c].first = "fresh") =>
              hist[c].inserts = 1 /\ ret[c].err = "ErrEventLocked"

\* C4: New inserts at most twice; after any duplicate key on the first insert
\* it inserts a second time, and ErrEventLocked is returned only when two
\* inserts were made.
RetryAfterAnyConflict ==
    \A c \in Callers :
        /\ hist[c].inserts <= 2
        /\ (ReturnedFrom(c, "New") /\ hist[c].first # "") => hist[c].inserts = 2
        /\ (ReturnedFrom(c, "New") /\ ret[c].err = "ErrEventLocked") =>
              hist[c].inserts = 2

\* A New whose first insert met a lock that was not expired has returned
\* its event after a second insert.
RetryWonAfterConflict ==
    \E c \in Callers :
        /\ ReturnedFrom(c, "New") /\ hist[c].first = "fresh"
        /\ hist[c].inserts = 2 /\ ret[c].err = ""

\* The events of the target that started within the last w: every row was
\* inserted by a New that succeeded, and rows of one event share its
\* uniqueId.
StartedWithin(w) ==
    {d.UniqueID : d \in {x \in events : x.Target = TargetA /\ x.StartTime > now - w}}

\* C5: with a ThrottlingSpec {Max, Time} registered for the target's name,
\* the events of the target that started within the last Time never number
\* more than Max.
ThrottleLimit ==
    \A e \in throttlingInfo :
        Cardinality(StartedWithin(e.spec.Time)) <= e.spec.Max

\* C6: when Done has returned without error for an event that New created,
\* exactly one row carries the uniqueId New returned; it is keyed by that
\* uniqueId and has running = false, and the handle still has that uniqueId.
DoneLeavesOneRow ==
    \A c \in Callers :
        (ReturnedFrom(c, "Done") /\ ret[c].err = "") =>
            LET rows == {d \in events : d.UniqueID = hist[c].uid}
            IN /\ hist[c].uid # 0 /\ h[c].UniqueID = hist[c].uid
               /\ Cardinality(rows) = 1
               /\ rows = FindId(ObjectId(hist[c].uid))
               /\ \A d \in rows : ~d.Running

\* A Done has returned without error and the historical row is there.
DoneReturnedOk ==
    \E c \in Callers :
        /\ ReturnedFrom(c, "Done") /\ ret[c].err = ""
        /\ FindId(ObjectId(hist[c].uid)) # {}

\* C7: from the return of New onward, an event that is not aborted has at
\* least one row carrying its uniqueId.
AuditKept ==
    \A c \in Callers :
        (hist[c].uid # 0 /\ ~loc[c].abort /\ ret[c].op # "Abort") =>
            \E d \in events : d.UniqueID = hist[c].uid

\* C9: from the return of New until Done or Abort begins, the handle's
\* target is in the set of the heartbeat worker of the handle's process.
HeldInSet ==
    \A c \in Callers : Held(c) => h[c].Target \in set[ProcOf(c)]

LiveRow(d) ==
    /\ d.ID = GetBSON(TargetId(d.Target))
    /\ d.Running /\ d.EndTime = 0 /\ d.Log = ""

HistoricalRow(d) ==
    /\ d.ID = GetBSON(ObjectId(d.UniqueID))
    /\ ~d.Running /\ d.EndTime # 0

\* C8: every row is live (keyed by its own target, running, no endTime, no
\* log) or historical (keyed by its own uniqueId, not running, endTime set).
RowShape == \A d \in events : LiveRow(d) \/ HistoricalRow(d)

\* A live row that was asked to cancel and annotated, next to the
\* historical row of an internal event that was marked as removed.
RowsOfBothShapes ==
    \E d, e \in events :
        /\ LiveRow(d) /\ d.CancelInfo.Asked /\ d.OtherCustomData # ""
        /\ HistoricalRow(e) /\ e.RemoveDate # 0 /\ e.Kind.Type = "internal"

\* C10: every row with cancelInfo.canceled has cancelInfo.asked.
CanceledImpliesAsked ==
    \A d \in events : d.CancelInfo.Canceled => d.CancelInfo.Asked

\* An event was canceled and finished, and the next one has been asked to
\* cancel.
CanceledThenDone ==
    \E d, e \in events :
        /\ HistoricalRow(d) /\ d.CancelInfo.Canceled /\ d.Error = CanceledMsg
        /\ LiveRow(e) /\ e.CancelInfo.Asked /\ ~e.CancelInfo.Canceled

\* C11: an AckCancel through a handle that is cancelable and running, on a
\* live row whose cancelInfo.asked is false, returns ErrEventNotFound and
\* leaves the store as it was; and whenever AckCancel writes a row with
\* canceled = true, that row had asked = true before the call.
AckNeedsAsked ==
    [][\A c \in Callers :
          AckCancel(c) =>
              /\ (/\ h[c].Cancelable /\ h[c].Running
                  /\ \E d \in FindId(h[c].ID) : ~d.CancelInfo.Asked)
                    => ret'[c].err = "ErrEventNotFound" /\ events' = events
              /\ \A d \in events' \ events :
                    d.CancelInfo.Canceled =>
                        \E x \in events :
                            x.ID = d.ID /\ x.CancelInfo.Asked /\ d = ackCancelChange(x)]_vars

\* An AckCancel came back with ErrEventNotFound from a live row nobody had
\* asked to cancel, and the row is untouched.
AckRefusedUnasked ==
    \E c \in Callers :
        /\ ReturnedFrom(c, "AckCancel") /\ ret[c].err = "ErrEventNotFound"
        /\ h[c].Cancelable /\ h[c].Running
        /\ \E d \in FindId(h[c].ID) :
              LiveRow(d) /\ ~d.CancelInfo.Asked /\ ~d.CancelInfo.Canceled

\* C12: the error Done gives the historical row, decided in the step in
\* which done reads the event's live row: the message of evtErr when there is
\* one; otherwise "canceled by user request" when that live row has
\* cancelInfo.canceled, whichever handle acknowledged; otherwise empty.
DoneErrorFromRow ==
    [][\A c \in Callers :
          (DoneFind(c) /\ ~nested[c]) =>
              \A d \in FindId(h[c].ID) :
                  d.UniqueID = h[c].UniqueID =>
                      h'[c].Error =
                          IF loc[c].evtErr # "" THEN loc[c].evtErr
                          ELSE IF d.CancelInfo.Canceled THEN CanceledMsg
                          ELSE ""]_vars

\* The Opts values a caller may pass: the Owner token absent, a user's or
\* an app's; RawOwner with none, one or both fields set, of any owner type;
\* Kind absent or a permission scheme; InternalKind empty or not.
OwnerTypes == {"", "user", "app", "internal"}
OwnerNames == {"", "name"}
OptsValues ==
    [Target : {TargetA}, Kind : {"", "app.update"}, InternalKind : {"", "healer"},
     Owner : {"", "user", "app"}, RawOwner : [Type : OwnerTypes, Name : OwnerNames],
     Cancelable : BOOLEAN]

\* One caller creates events through New and NewInternal with any Opts
\* value and aborts them.
OptsNext ==
    \/ \E c \in ShapeCallers, opts \in OptsValues :
          /\ nextId <= MaxEvents
          /\ NewCall(c, opts, FALSE) /\ SoloAfter(c)
    \/ \E c \in ShapeCallers, opts \in OptsValues :
          /\ nextId <= MaxEvents
          /\ NewCall(c, opts, TRUE) /\ SoloAfter(c)
    \/ \E c \in ShapeCallers : NewInsert(c) /\ SoloAfter(c)
    \/ \E c \in ShapeCallers : NewAdd(c) /\ SoloAfter(c)
    \/ \E c \in ShapeCallers : Held(c) /\ DoneCall(c, "", TRUE) /\ SoloAfter(c)
    \/ \E c \in ShapeCallers : AbortRemove(c) /\ SoloAfter(c)

SpecOpts == Init /\ [][OptsNext]_vars

\* C13: no event that New or NewInternal created has a permission kind with
\* an internal owner, nor an internal kind with a user or app owner.
KindOwnerCompatible ==
    \A d \in events :
        /\ ~(d.Kind.Type = "permission" /\ d.Owner.Type = "internal")
        /\ ~(d.Kind.Type = "internal" /\ d.Owner.Type \in {"user", "app"})

\* coll.Find({"uniqueid": id}).One(&evt.eventData): the rows it can return.
GetByIDQuery(id) == {d \in events : d.UniqueID = id}

\* GetByID's error; "" when it returns an event.
GetByID(id) == IF GetByIDQuery(id) = {} THEN "ErrEventNotFound" ELSE ""

\* C14: once Abort has returned on a handle that New returned, no row, live
\* or historical, carries the event's uniqueId, and GetByID of that uniqueId
\* gives ErrEventNotFound.
AbortLeavesNoTrace ==
    \A c \in Callers :
        (ReturnedFrom(c, "Abort") /\ hist[c].uid # 0) =>
            /\ \A d \in events : d.UniqueID # hist[c].uid
            /\ GetByID(hist[c].uid) = "ErrEventNotFound"

\* The filters List is given: Nil is List(nil), as All() calls it; Target
\* with empty fields filters nothing; Raw "" is a nil Raw, "removedate" is
\* bson.M{"removedate": {"$exists": true}}.
Filters ==
    [Nil : BOOLEAN, Target : {NoTarget, TargetA}, IncludeRemoved : BOOLEAN,
     Raw : {"", "removedate"}]

\* Filter.toQuery, as the condition a document has to meet: the Raw entries
\* are written last, over the clauses of the same key.
toQuery(f, d) ==
    /\ f.Target.Name # "" => d.Target.Name = f.Target.Name
    /\ f.Target.Value # "" => d.Target.Value = f.Target.Value
    /\ IF f.Raw = "removedate" THEN d.RemoveDate # 0
       ELSE ~f.IncludeRemoved => d.RemoveDate = 0

\* List(filter): with a nil filter the query stays nil and finds every
\* document. The default limit of 100 is above the rows there are here.
List(f) == IF f.Nil THEN events ELSE {d \in events : toQuery(f, d)}

\* C15: a List that does not ask for removed rows (a nil filter, or a Filter
\* with IncludeRemoved = false and no Raw) returns no row with a removeDate.
ListHidesRemoved ==
    \A f \in Filters :
        (f.Nil \/ (~f.IncludeRemoved /\ f.Raw = "")) =>
            \A d \in List(f) : d.RemoveDate = 0

\* The handle of c is stale: its event was reclaimed as expired (it has a
\* historical row with the expiry message) and another event holds the
\* target.
StaleHandle(c) ==
    /\ h[c].UniqueID # 0
    /\ \E x \in FindId(ObjectId(h[c].UniqueID)) : x.Error = ExpiredMsg
    /\ \E d \in FindId(TargetId(h[c].Target)) : d.UniqueID # h[c].UniqueID

\* A step of a Done or Abort that c called on its handle.
FinalizeStep(c) == life'[c] = "final" /\ pc'[c] # pc[c]

\* The callers of Spec, except that a handle is finalized only after it has
\* become stale: every Done and Abort here is called on a stale handle.
StaleNext ==
    \/ \E c \in LockCallers :
          /\ nextId <= MaxEvents /\ (nextId = 1 => c = "c1")
          /\ NewCall(c, PermOpts(TargetA, FALSE), FALSE) /\ SoloAfter(c)
    \/ \E c \in LockCallers : NewInsert(c) /\ SoloAfter(c)
    \/ \E c \in LockCallers : NewCheck(c) /\ SoloAfter(c)
    \/ \E c \in LockCallers : NewFind(c) /\ SoloAfter(c)
    \/ \E c \in LockCallers : NewAdd(c) /\ SoloAfter(c)
    \/ \E c \in LockCallers :
          Held(c) /\ StaleHandle(c) /\ DoneCall(c, "", FALSE) /\ SoloAfter(c)
    \/ \E c \in LockCallers :
          Held(c) /\ StaleHandle(c) /\ DoneCall(c, "", TRUE) /\ SoloAfter(c)
    \/ \E c \in LockCallers : DoneSend(c) /\ SoloAfter(c)
    \/ \E c \in LockCallers : AbortRemove(c) /\ SoloAfter(c)
    \/ \E c \in LockCallers : DoneFind(c) /\ SoloAfter(c)
    \/ \E c \in LockCallers : DoneInsert(c) /\ SoloAfter(c)
    \/ \E c \in LockCallers : DoneRemove(c) /\ SoloAfter(c)
    \/ spinTimeout("p1") /\ SoloLost
    \/ Tick

SpecStale == Init /\ [][StaleNext]_vars

\* C16: no step of a Done or Abort called on a stale handle removes the live
\* row of the event that holds the target now, nor takes the target out of
\* the heartbeat set of the process of that event's holder.
StaleFinalizeHarmless ==
    [][\A c \in Callers :
          (FinalizeStep(c) /\ StaleHandle(c)) =>
              /\ \A d \in FindId(TargetId(h[c].Target)) :
                    \E e \in events' : e.ID = d.ID /\ e.UniqueID = d.UniqueID
              /\ \A b \in Callers :
                    (/\ Held(b) /\ h[b].Target = h[c].Target
                     /\ h[b].UniqueID # h[c].UniqueID
                     /\ h[c].Target \in set[ProcOf(b)])
                        => h[c].Target \in set'[ProcOf(b)]]_vars

\* The callers of Spec, who may also call Done once more on a handle whose
\* Done has returned without error.
RepeatNext ==
    \/ LockNext(MaxEvents)
    \/ \E c \in LockCallers :
          /\ life[c] = "final" /\ ret[c] = [op |-> "Done", err |-> ""]
          /\ DoneCall(c, "", FALSE) /\ SoloAfter(c)

SpecRepeat == Init /\ [][RepeatNext]_vars

\* done runs on a handle on which a Done ran before: e.ID is the unique id
\* already when done begins, and so is the id given to the deferred remove.
RepeatedDone(c) ==
    /\ ~nested[c]
    /\ IF pc[c] = "D_remove" THEN loc[c].deferId.ObjId # 0 ELSE h[c].ID.ObjId # 0

\* C17: no step of a second Done on a handle whose first Done succeeded
\* removes a row (the historical row of the handle's event stays, and so
\* does the live row of a later event), nor takes the target of a held
\* event out of the heartbeat set.
DoneRepeatSafe ==
    [][\A c \in Callers :
          (FinalizeStep(c) /\ RepeatedDone(c)) =>
              /\ \A d \in events :
                    \E e \in events' : e.ID = d.ID /\ e.UniqueID = d.UniqueID
              /\ \A b \in Callers :
                    (Held(b) /\ h[b].Target \in set[ProcOf(b)])
                        => h[b].Target \in set'[ProcOf(b)]]_vars

\* The callers of SpecCancel, whose events are cancelable or not.
MixNext ==
    \/ \E c \in LockCallers, cancelable \in BOOLEAN :
          /\ nextId <= MaxEvents /\ (nextId = 1 => c = "c1")
          /\ NewCall(c, PermOpts(TargetA, cancelable), FALSE) /\ SoloAfter(c)
    \/ \E c \in LockCallers : NewInsert(c) /\ SoloAfter(c)
    \/ \E c \in LockCallers : NewCheck(c) /\ SoloAfter(c)
    \/ \E c \in LockCallers : NewFind(c) /\ SoloAfter(c)
    \/ \E c \in LockCallers : NewAdd(c) /\ SoloAfter(c)
    \/ \E c \in LockCallers : Unfinalized(c) /\ DoneCall(c, "", FALSE) /\ SoloAfter(c)
    \/ \E c \in LockCallers : Unfinalized(c) /\ DoneCall(c, "", TRUE) /\ SoloAfter(c)
    \/ \E c \in LockCallers : AbortRemove(c) /\ SoloAfter(c)
    \/ \E c \in LockCallers : DoneFind(c) /\ SoloAfter(c)
    \/ \E c \in LockCallers : DoneInsert(c) /\ SoloAfter(c)
    \/ \E c \in LockCallers : DoneRemove(c) /\ SoloAfter(c)
    \/ \E c \in LockCallers : GetRunning(c, TargetA, "app.update") /\ SoloAfter(c)
    \/ \E c \in LockCallers : TryCancel(c) /\ SoloAfter(c)
    \/ \E c \in LockCallers : AckCancel(c) /\ SoloAfter(c)

SpecMix == Init /\ [][MixNext]_vars

\* C18: no row with cancelable = false has cancelInfo.asked or
\* cancelInfo.canceled.
CancelOnlyCancelable ==
    \A d \in events :
        ~d.Cancelable => ~d.CancelInfo.Asked /\ ~d.CancelInfo.Canceled

\* l.stop(): the worker returns from spin, and its set goes with it; the
\* next updater.start() begins a new worker.
stop(p) ==
    /\ started[p]
    /\ started' = [started EXCEPT ![p] = FALSE]
    /\ set' = [set EXCEPT ![p] = {}]
    /\ UNCHANGED <<events, now, nextId, throttlingInfo, pc, h, logBuffer, life,
                   existingEvt, nested, loc, ret, hist>>

\* e.Done / e.Abort up to the send on updater.removeCh, which waits for the
\* worker to receive (DoneSend).
DoneBegin(c, evtErr, abort) ==
    /\ pc[c] = "idle"
    /\ h[c].UniqueID # 0
    /\ pc' = [pc EXCEPT ![c] = "D_send"]
    /\ loc' = [loc EXCEPT ![c] = [NoLoc EXCEPT !.abort = abort, !.evtErr = evtErr]]
    /\ ret' = [ret EXCEPT ![c] = NoRet]
    /\ life' = [life EXCEPT ![c] = "final"]
    /\ hist' = [hist EXCEPT ![c] = [NoHist EXCEPT !.uid = hist[c].uid]]
    /\ UNCHANGED <<events, now, nextId, throttlingInfo, set, started, h,
                   logBuffer, existingEvt, nested>>

\* A caller of process p1 creates events; a caller of process p2, which
\* creates none, reaches the running event through GetRunning. Both finish
\* or abort the handles they have, and the worker of p1 may be stopped.
LiveCallers == {"c1", "c3"}

\* The steps of a call that has begun: each is a store call, which is
\* answered, or a channel operation, which needs its other side.
CallerStep(c) ==
    /\ \/ NewInsert(c) \/ NewAdd(c) \/ DoneSend(c) \/ AbortRemove(c)
       \/ DoneFind(c) \/ DoneInsert(c) \/ DoneRemove(c)
    /\ SoloAfter(c)

LiveNext ==
    \/ /\ nextId <= MaxEvents
       /\ NewCall("c1", PermOpts(TargetA, FALSE), FALSE) /\ SoloAfter("c1")
    \/ \E c \in LiveCallers : CallerStep(c)
    \/ \E c \in LiveCallers : Unfinalized(c) /\ DoneBegin(c, "", FALSE) /\ SoloAfter(c)
    \/ \E c \in LiveCallers : Unfinalized(c) /\ DoneBegin(c, "", TRUE) /\ SoloAfter(c)
    \/ GetRunning("c3", TargetA, "app.update") /\ SoloAfter("c3")
    \/ stop("p1") /\ SoloLost

\* The scheduler runs every goroutine that can take a step, and the store
\* answers: a caller's step that stays possible is taken.
SpecLive ==
    Init /\ [][LiveNext]_vars /\ \A c \in LiveCallers : WF_vars(CallerStep(c))

\* C19: every Done and every Abort that was called returns.
DoneTerminates ==
    \A c \in Callers : (life[c] = "final" /\ pc[c] # "idle") ~> (pc[c] = "idle")

\* C20: when Done writes the historical row of an event whose live row has
\* a removeDate, the historical row has a removeDate too.
RemoveMarkSurvives ==
    [][\A c \in Callers :
          (DoneInsert(c) /\ ~nested[c]) =>
              \A d \in FindId(h[c].ID) :
                  (d.UniqueID = h[c].UniqueID /\ d.RemoveDate # 0) =>
                      \A e \in events' \ events : e.RemoveDate # 0]_vars
====
